---- MODULE Spec2Model ----
(***************************************************************************)
(* Model of gen-combinations (src/lib.rs): CombinationIterator, a lazy     *)
(* iterator over the k-combinations of a borrowed slice.                   *)
(*                                                                         *)
(* Rust positions are 0-based; TLA+ sequences are 1-based.  All index      *)
(* arithmetic below is the code's 0-based arithmetic, and At/Put translate *)
(* a 0-based position into the sequence.                                   *)
(***************************************************************************)
EXTENDS Integers, Sequences, FiniteSets, TLC

(* ------------------------------ bounds --------------------------------- *)
\* longest item slice explored by the single-enumerator specification
MaxN == 5
\* longest item slice explored by the two-enumerator specification
MaxPairN == 3
\* longest item slice explored by the fair specification
MaxLiveN == 4
\* item values are drawn from 1..MaxVal (two values give duplicates)
MaxVal == 2
\* next() calls explored after the first None has been returned
MaxNone == 3

\* width of usize in bits; 16 is the narrowest pointer width Rust targets
USIZE_BITS == 16
USIZE_MOD == 2 ^ USIZE_BITS

Values == 1..MaxVal

VARIABLES
    c,        \* the enumerator: [items, indices]              (lib.rs:30-33)
    n,        \* the size argument given to new()              (lib.rs:39)
    trace,    \* one entry per completed next() call: [pre, ret]
    faults,   \* arithmetic overflows and panics raised so far
    d,        \* a second enumerator over another slice
    trace2    \* the calls completed on d

vars == <<c, n, trace, faults, d, trace2>>

(* ----------------------------- helpers --------------------------------- *)
\* s[i] for a 0-based position i
At(s, i) == s[i + 1]
\* s with the 0-based position i set to v
Put(s, i, v) == [s EXCEPT ![i + 1] = v]

\* Option<Vec<&T>>
None == [some |-> FALSE, val |-> <<>>]
Some(v) == [some |-> TRUE, val |-> v]

\* &items[i]: the place referred to and the value read through it
Ref(items, i) == [at |-> i, val |-> At(items, i)]

\* usize subtraction: the mathematical result wrapped to the width, and
\* whether it went below zero
usize_sub(a, b) == [val |-> (a - b) % USIZE_MOD, overflow |-> a < b]
\* usize addition
usize_add(a, b) == [val |-> (a + b) % USIZE_MOD, overflow |-> a + b >= USIZE_MOD]

(* --------------------------- construction ------------------------------ *)
\* (0..n).collect()
Range0(k) == [p \in 1..k |-> p - 1]

new_from_one(items, k) == [items |-> items, indices |-> [p \in 1..k |-> p]]
new(items, k) == [items |-> items, indices |-> Range0(k)]

(* ------------------------------- next ---------------------------------- *)
\* self.indices.is_empty() || self.indices.len() > self.items.len()
is_exhausted_no_len_check(self) == Len(self.indices) = 0
is_exhausted_ge(self) ==
    Len(self.indices) = 0 \/ Len(self.indices) >= Len(self.items)
is_exhausted(self) ==
    Len(self.indices) = 0 \/ Len(self.indices) > Len(self.items)

\* self.indices.iter().map(|i| &(self.items[*i])).collect()
\* an index outside the slice panics
collect_reversed(items, indices) ==
    IF \E p \in 1..Len(indices) : indices[p] >= Len(items)
    THEN [ok |-> FALSE, val |-> <<>>]
    ELSE [ok |-> TRUE,
          val |-> [p \in 1..Len(indices) |->
                      Ref(items, indices[Len(indices) + 1 - p])]]
collect(items, indices) ==
    IF \E p \in 1..Len(indices) : indices[p] >= Len(items)
    THEN [ok |-> FALSE, val |-> <<>>]
    ELSE [ok |-> TRUE,
          val |-> [p \in 1..Len(indices) |-> Ref(items, indices[p])]]

\* the bound of line 54: self.items.len() - (self.indices.len() - i)
room_bound_off_by_one(items, indices, i) ==
    usize_sub(Len(items), usize_sub(Len(indices), i + 1).val)
room_bound_tight(items, indices, i) ==
    usize_sub(usize_sub(Len(items), usize_sub(Len(indices), i).val).val, 1)
room_bound(items, indices, i) ==
    usize_sub(Len(items), usize_sub(Len(indices), i).val)

\* the test of line 54, given the bound
has_room_dedup(items, indices, i, bound) ==
    /\ At(indices, i) < bound
    /\ At(indices, i) + 1 < Len(items)
          => At(items, At(indices, i) + 1) # At(items, At(indices, i))
has_room_le(items, indices, i, bound) == At(indices, i) <= bound
has_room(items, indices, i, bound) == At(indices, i) < bound

\* for j in i..self.indices.len() { self.indices[j] = self.indices[i] + (j - i); }
\* run from position j on; returns the indices and whether an addition wrapped
RECURSIVE repack_from(_, _, _)
repack_from(indices, i, j) ==
    IF j >= Len(indices)
    THEN [indices |-> indices, overflow |-> FALSE]
    ELSE LET s == usize_add(At(indices, i), j - i)
             rest == repack_from(Put(indices, j, s.val), i, j + 1)
         IN  [rest EXCEPT !.overflow = s.overflow \/ @]

\* lines 55-58: self.indices[i] += 1, then the loop over j
advance_no_spread(indices, i) ==
    [indices |-> [p \in 1..Len(indices) |->
                     IF p - 1 >= i THEN At(indices, i) + 1 ELSE indices[p]],
     overflow |-> FALSE]
advance_keep_tail(indices, i) ==
    [indices |-> Put(indices, i, At(indices, i) + 1), overflow |-> FALSE]
advance(indices, i) ==
    LET inc == usize_add(At(indices, i), 1)
        rep == repack_from(Put(indices, i, inc.val), i, i)
    IN  [indices |-> rep.indices, overflow |-> inc.overflow \/ rep.overflow]

\* line 62: self.indices.clear()
clear_restart(indices) == Range0(Len(indices))
clear_pop(indices) == SubSeq(indices, 1, Len(indices) - 1)
clear_keep(indices) == indices
clear(indices) == <<>>

\* the result of a call: the enumerator afterwards, the value returned
\* (ret) unless the call panicked, and the faults it raised
Outcome(self, ret, panicked, fs) ==
    [self |-> self, ret |-> ret, panicked |-> panicked, faults |-> fs]

\* lines 53-63: for i in (0..self.indices.len()).rev() { ... } from position
\* i down; i = -1 is the end of the loop.  checks: the build traps
\* arithmetic overflow (debug) instead of wrapping (release)
RECURSIVE scan(_, _, _, _)
scan(self, ret, i, checks) ==
    IF i < 0
    THEN Outcome([self EXCEPT !.indices = clear(self.indices)], Some(ret), FALSE, {})
    ELSE LET b == room_bound(self.items, self.indices, i)
         IN  IF b.overflow /\ checks
             THEN Outcome(self, None, TRUE, {"sub_overflow"})
             ELSE LET fb == IF b.overflow THEN {"sub_overflow"} ELSE {}
                  IN  IF has_room(self.items, self.indices, i, b.val)
                      THEN LET a == advance(self.indices, i)
                           IN  IF a.overflow /\ checks
                               THEN Outcome(self, None, TRUE, fb \cup {"add_overflow"})
                               ELSE Outcome([self EXCEPT !.indices = a.indices],
                                            Some(ret), FALSE,
                                            fb \cup (IF a.overflow
                                                     THEN {"add_overflow"} ELSE {}))
                      ELSE LET r == scan(self, ret, i - 1, checks)
                           IN  [r EXCEPT !.faults = fb \cup @]

\* lines 48-65: Iterator::next
next_clamps(self, checks) ==
    IF is_exhausted(self)
    THEN Outcome([self EXCEPT !.indices =
                        IF Len(self.indices) > Len(self.items)
                        THEN SubSeq(self.indices, 1, Len(self.items))
                        ELSE self.indices],
                 None, FALSE, {})
    ELSE LET r == collect(self.items, self.indices)
         IN  IF ~r.ok
             THEN Outcome(self, None, TRUE, {"index_out_of_bounds"})
             ELSE scan(self, r.val, Len(self.indices) - 1, checks)
next_clears_on_none(self, checks) ==
    IF is_exhausted(self)
    THEN Outcome([self EXCEPT !.indices = <<>>], None, FALSE, {})
    ELSE LET r == collect(self.items, self.indices)
         IN  IF ~r.ok
             THEN Outcome(self, None, TRUE, {"index_out_of_bounds"})
             ELSE scan(self, r.val, Len(self.indices) - 1, checks)
next(self, checks) ==
    IF is_exhausted(self)
    THEN Outcome(self, None, FALSE, {})
    ELSE LET r == collect(self.items, self.indices)
         IN  IF ~r.ok
             THEN Outcome(self, None, TRUE, {"index_out_of_bounds"})
             ELSE scan(self, r.val, Len(self.indices) - 1, checks)

(* --------------------------- state machine ----------------------------- *)
SeqsUpTo(S, m) == UNION {[1..l -> S] : l \in 0..m}

NoneCount(t) == Cardinality({p \in 1..Len(t) : ~t[p].ret.some})

\* most calls a run may make: every subset of positions once, then MaxNone
CallCap(items) == 2 ^ Len(items) + MaxNone

\* a fresh enumerator c over any slice and any size; d is not used
Init ==
    /\ \E items \in SeqsUpTo(Values, MaxN), k \in 0..(MaxN + 1) :
          /\ c = new(items, k)
          /\ n = k
    /\ trace = <<>>
    /\ faults = {}
    /\ d = new(<<>>, 0)
    /\ trace2 = <<>>

\* one c.next() call
CallNext ==
    /\ faults = {}
    /\ NoneCount(trace) < MaxNone
    /\ Len(trace) < CallCap(c.items)
    /\ \E checks \in BOOLEAN :
          LET r == next(c, checks)
          IN  /\ c' = r.self
              /\ faults' = faults \cup r.faults
              /\ trace' = IF r.panicked THEN trace
                          ELSE Append(trace, [pre |-> c.indices, ret |-> r.ret])
    /\ UNCHANGED <<n, d, trace2>>

Next == CallNext

Spec == Init /\ [][Next]_vars

\* a fresh enumerator c over any slice of up to MaxLiveN items and any size
InitLive ==
    /\ \E items \in SeqsUpTo(Values, MaxLiveN), k \in 0..(MaxLiveN + 1) :
          /\ c = new(items, k)
          /\ n = k
    /\ trace = <<>>
    /\ faults = {}
    /\ d = new(<<>>, 0)
    /\ trace2 = <<>>

\* the caller keeps calling next(): a call that can be made is made
SpecLive == InitLive /\ [][Next]_vars /\ WF_vars(CallNext)

\* two fresh enumerators of the same size over two slices of the same length
InitPair ==
    /\ \E l \in 0..MaxPairN, k \in 0..(MaxPairN + 1) :
          \E items \in [1..l -> Values], items2 \in [1..l -> Values] :
             /\ c = new(items, k)
             /\ d = new(items2, k)
             /\ n = k
    /\ trace = <<>>
    /\ trace2 = <<>>
    /\ faults = {}

\* one d.next() call
CallNext2 ==
    /\ faults = {}
    /\ NoneCount(trace2) < MaxNone
    /\ Len(trace2) < CallCap(d.items)
    /\ \E checks \in BOOLEAN :
          LET r == next(d, checks)
          IN  /\ d' = r.self
              /\ faults' = faults \cup r.faults
              /\ trace2' = IF r.panicked THEN trace2
                           ELSE Append(trace2, [pre |-> d.indices, ret |-> r.ret])
    /\ UNCHANGED <<n, c, trace>>

NextPair == CallNext \/ CallNext2

SpecPair == InitPair /\ [][NextPair]_vars

(* ------------------------- vocabulary of the claims -------------------- *)
N == Len(c.items)

\* the index tuple a returned combination refers to
Tuple(ret) == [p \in 1..Len(ret.val) |-> ret.val[p].at]
\* the values a returned combination refers to
ValuesOf(ret) == [p \in 1..Len(ret.val) |-> ret.val[p].val]

StrictlyIncreasing(s) == \A p \in 1..Len(s), q \in 1..Len(s) : p < q => s[p] < s[q]
InRange(s, m) == \A p \in 1..Len(s) : s[p] \in 0..(m - 1)

\* lexicographic order, positions compared left to right as integers
LexLess(a, b) ==
    \/ \E p \in 1..Len(a) :
          /\ p <= Len(b)
          /\ a[p] < b[p]
          /\ \A q \in 1..(p - 1) : a[q] = b[q]
    \/ Len(a) < Len(b) /\ \A q \in 1..Len(a) : a[q] = b[q]

SetMax(S) == CHOOSE x \in S : \A y \in S : y <= x
RECURSIVE Ascending(_)
\* the members of a finite set of integers in ascending order
Ascending(S) == IF S = {} THEN <<>>
                ELSE Append(Ascending(S \ {SetMax(S)}), SetMax(S))

\* all strictly increasing k-tuples over 0..m-1
Combos(m, k) == {Ascending(S) : S \in {T \in SUBSET (0..(m - 1)) : Cardinality(T) = k}}

RECURSIVE Fact(_)
Fact(m) == IF m = 0 THEN 1 ELSE m * Fact(m - 1)
\* C(m,k) = m!/(k!(m-k)!)
Binomial(m, k) == Fact(m) \div (Fact(k) * Fact(m - k))

\* position m of t is the first call that returned None
FirstNoneAt(t, m) ==
    /\ m \in 1..Len(t)
    /\ ~t[m].ret.some
    /\ \A p \in 1..(m - 1) : t[p].ret.some

SomeCount(t) == Cardinality({p \in 1..Len(t) : t[p].ret.some})

ProperSize == 0 < n /\ n <= N

(* ------------------------------- claims -------------------------------- *)

\* C1: for 0 < k <= N, the index tuples returned by a fresh enumerator up
\* to the first None are exactly all strictly increasing k-tuples over
\* 0..N-1, and no tuple is returned twice.
C1_AllCombinationsExactlyOnce ==
    ProperSize =>
        /\ \A p \in 1..Len(trace), q \in 1..Len(trace) :
              (p < q /\ trace[p].ret.some /\ trace[q].ret.some)
                  => Tuple(trace[p].ret) # Tuple(trace[q].ret)
        /\ \A m \in 1..Len(trace) :
              FirstNoneAt(trace, m)
                  => {Tuple(trace[p].ret) : p \in 1..(m - 1)} = Combos(N, n)

\* scenario B has run to its end: 5 items, k = 3, ten combinations, None
C1_Witness ==
    /\ N = 5 /\ n = 3
    /\ FirstNoneAt(trace, 11)

\* C2: for 0 < k <= N, exactly C(N,k) combinations are returned before the
\* first None; exactly one when k = N.
C2_CountIsBinomial ==
    ProperSize =>
        /\ SomeCount(trace) <= Binomial(N, n)
        /\ \A m \in 1..Len(trace) :
              FirstNoneAt(trace, m)
                  => /\ m - 1 = Binomial(N, n)
                     /\ n = N => m - 1 = 1

C2_Witness ==
    /\ N = 4 /\ n = 4
    /\ FirstNoneAt(trace, 2)

\* C3: of two consecutive calls that both return a combination, the later
\* index tuple is strictly greater in lexicographic order.
C3_LexIncreasing ==
    \A p \in 1..(Len(trace) - 1) :
        (trace[p].ret.some /\ trace[p + 1].ret.some)
            => LexLess(Tuple(trace[p].ret), Tuple(trace[p + 1].ret))

\* the step <<0,3,4>> -> <<1,2,3>>, which lowers two positions, has been taken
C3_Witness ==
    \E p \in 1..(Len(trace) - 1) :
        /\ trace[p].ret.some /\ trace[p + 1].ret.some
        /\ Tuple(trace[p].ret) = <<0, 3, 4>>
        /\ Tuple(trace[p + 1].ret) = <<1, 2, 3>>

\* C4: with k = 0 or k > N the first call returns None, no combination is
\* ever returned and nothing fails.
C4_DegenerateSizeYieldsNothing ==
    (n = 0 \/ n > N) =>
        /\ faults = {}
        /\ \A p \in 1..Len(trace) : trace[p].ret = None

\* k > N over a non-empty slice, after the first call
C4_Witness ==
    /\ n > N /\ N > 0
    /\ Len(trace) = 1

\* C5: once a call has returned None, every later call returns None.
C5_ExhaustionIsTerminal ==
    \A p \in 1..Len(trace), q \in 1..Len(trace) :
        (p < q /\ ~trace[p].ret.some) => ~trace[q].ret.some

\* combinations, then None three times over
C5_Witness ==
    /\ Len(trace) >= 4
    /\ trace[1].ret.some
    /\ NoneCount(trace) = 3

\* C6: a returned combination has k entries, entry p being the reference
\* to items[indices[p]] for the indices held when the call started; the
\* first combination of a fresh enumerator with 0 < k <= N is items[0..k-1].
C6_CombinationMapsIndices ==
    /\ \A m \in 1..Len(trace) :
          trace[m].ret.some =>
              /\ Len(trace[m].ret.val) = n
              /\ \A p \in 1..n :
                    trace[m].ret.val[p] =
                        [at |-> trace[m].pre[p], val |-> c.items[trace[m].pre[p] + 1]]
    /\ (ProperSize /\ Len(trace) >= 1) =>
          trace[1].ret = Some([p \in 1..n |-> [at |-> p - 1, val |-> c.items[p]]])

\* a combination of two items whose values differ, taken out of order of value
C6_Witness ==
    \E m \in 2..Len(trace) :
        /\ trace[m].ret.some
        /\ n = 2
        /\ ValuesOf(trace[m].ret) = <<2, 1>>

\* C7: the index tuple of every returned combination is strictly
\* increasing with entries in 0..N-1; no position appears twice.
C7_TupleStrictlyIncreasing ==
    \A m \in 1..Len(trace) :
        trace[m].ret.some =>
            LET t == Tuple(trace[m].ret)
            IN  /\ StrictlyIncreasing(t)
                /\ InRange(t, N)
                /\ Cardinality({t[p] : p \in 1..Len(t)}) = Len(t)

\* a combination returned after a step that re-packed the tail
C7_Witness ==
    \E m \in 1..Len(trace) :
        /\ trace[m].ret.some
        /\ Tuple(trace[m].ret) = <<1, 2, 3, 4>>
        /\ N = 5

\* C8: nothing fails: no call reads items outside 0..N-1 and the
\* subtraction items.len() - (indices.len() - i) never goes below zero,
\* neither in the calls made nor in the call that could come next.
C8_NoFault ==
    /\ faults = {}
    /\ ~is_exhausted(c) =>
          \A i \in 0..(Len(c.indices) - 1) :
              /\ At(c.indices, i) < N
              /\ Len(c.indices) - i >= 0
              /\ N - (Len(c.indices) - i) >= 0

\* k = N: the scan reached i = 0, where the subtraction yields exactly 0
C8_Witness ==
    /\ n = N /\ N >= 2
    /\ Len(trace) >= 2
    /\ trace[1].ret.some

\* C9: two enumerators of the same N and k over different item values go
\* through the same index tuples call by call and return the same number
\* of combinations.
C9_PositionsOnly ==
    /\ \A p \in 1..Len(trace) :
          p <= Len(trace2) =>
              /\ trace[p].pre = trace2[p].pre
              /\ trace[p].ret.some = trace2[p].ret.some
              /\ Tuple(trace[p].ret) = Tuple(trace2[p].ret)
    /\ (NoneCount(trace) > 0 /\ NoneCount(trace2) > 0)
          => SomeCount(trace) = SomeCount(trace2)

\* d runs over duplicate values, c over distinct ones; both are exhausted
\* and d has returned two value-equal combinations
C9_Witness ==
    /\ c.items = <<1, 2, 1>> /\ d.items = <<2, 2, 2>>
    /\ n = 2
    /\ NoneCount(trace) > 0 /\ NoneCount(trace2) > 0
    /\ \E p \in 1..Len(trace2), q \in 1..Len(trace2) :
          /\ p < q
          /\ trace2[p].ret.some /\ trace2[q].ret.some
          /\ ValuesOf(trace2[p].ret) = ValuesOf(trace2[q].ret)

\* C10 as stated: the Index State is always empty or k strictly
\* increasing integers, each in [0, N).
C10_AsStated ==
    \/ c.indices = <<>>
    \/ /\ Len(c.indices) = n
       /\ StrictlyIncreasing(c.indices)
       /\ InRange(c.indices, N)

\* C10 (amended): the Index State is always empty or k strictly increasing
\* non-negative integers; each is in [0, N) when k <= N, and when k > N the
\* state is (0, ..., k-1).
C10_IndexStateShape ==
    \/ c.indices = <<>>
    \/ /\ Len(c.indices) = n
       /\ StrictlyIncreasing(c.indices)
       /\ \A p \in 1..n : c.indices[p] >= 0
       /\ n <= N => InRange(c.indices, N)
       /\ n > N => c.indices = [p \in 1..n |-> p - 1]

\* in the middle of an enumeration, after the tail was re-packed
C10_Witness ==
    /\ c.indices = <<1, 2, 4>>
    /\ N = 5
    /\ Len(trace) = 7

\* the Index State left behind by call m of the trace
Post(m) == IF m < Len(trace) THEN trace[m + 1].pre ELSE c.indices

\* the calls of the trace that changed the length of the Index State
LengthChanges == {m \in 1..Len(trace) : Len(Post(m)) # Len(trace[m].pre)}

\* C11: the Index State has length k at the start of every call that
\* returns a combination, and its length changes only once, to 0, in the
\* call that returns the last combination.
C11_LengthFixedUntilCleared ==
    /\ Len(c.indices) \in {n, 0}
    /\ \A m \in 1..Len(trace) : trace[m].ret.some => Len(trace[m].pre) = n
    /\ Cardinality(LengthChanges) <= 1
    /\ \A m \in LengthChanges :
          /\ trace[m].ret.some
          /\ Len(Post(m)) = 0
          /\ \A q \in (m + 1)..Len(trace) : ~trace[q].ret.some

\* six combinations of two items out of four, the clear, then None
C11_Witness ==
    /\ N = 4 /\ n = 2
    /\ LengthChanges = {6}
    /\ Len(trace) = 7

\* the lexicographically last k-tuple over 0..m-1: (m-k, ..., m-1)
LastTuple(m, k) == [p \in 1..k |-> m - k + p - 1]

\* the 0-based positions of t that can be incremented: t[i] < m - (k - i)
Incrementable(t, m) == {i \in 0..(Len(t) - 1) : At(t, i) < m - (Len(t) - i)}

\* t with its rightmost incrementable position i raised by one and every
\* position j > i set to t[i] + 1 + (j - i)
Successor(t, m) ==
    LET i == SetMax(Incrementable(t, m))
    IN  [p \in 1..Len(t) |->
            IF p - 1 < i THEN t[p] ELSE At(t, i) + 1 + ((p - 1) - i)]

\* C12: a call that returns the combination of a tuple t other than
\* (N-k, ..., N-1) leaves the successor of t: the rightmost position with
\* room incremented, the positions to its right re-packed; this is the
\* least strictly increasing k-tuple over 0..N-1 above t.
C12_ImmediateSuccessor ==
    \A m \in 1..Len(trace) :
        (trace[m].ret.some /\ trace[m].pre # LastTuple(N, n)) =>
            LET t == trace[m].pre
                u == Post(m)
            IN  /\ Tuple(trace[m].ret) = t
                /\ Incrementable(t, N) # {}
                /\ u = Successor(t, N)
                /\ u \in Combos(N, n)
                /\ LexLess(t, u)
                /\ ~\E v \in Combos(N, n) : LexLess(t, v) /\ LexLess(v, u)

\* the call on <<0,3,4>> incremented position 0 and re-packed two positions
C12_Witness ==
    /\ N = 5
    /\ \E m \in 1..Len(trace) :
          /\ trace[m].ret.some
          /\ trace[m].pre = <<0, 3, 4>>
          /\ Post(m) = <<1, 2, 3>>

\* call m of the trace emptied a non-empty Index State
Cleared(m) == trace[m].pre # <<>> /\ Post(m) = <<>>

\* C13: a call clears the Index State exactly when it starts on the last
\* tuple (N-k, ..., N-1) with 0 < k <= N; that call returns the combination
\* of the last tuple and the call after it returns None.
C13_ClearedExactlyAtLastTuple ==
    \A m \in 1..Len(trace) :
        /\ Cleared(m) <=> (ProperSize /\ trace[m].pre = LastTuple(N, n))
        /\ Cleared(m) =>
              /\ trace[m].ret.some
              /\ Tuple(trace[m].ret) = LastTuple(N, n)
              /\ m < Len(trace) => trace[m + 1].ret = None

\* scenario A: the third call starts on <<1,2>>, clears, and the fourth
\* returns None
C13_Witness ==
    /\ N = 3 /\ n = 2
    /\ Len(trace) = 4
    /\ trace[3].pre = <<1, 2>>
    /\ Cleared(3)
    /\ trace[4].ret = None

\* the step is a c.next() call that returned None
ReturnsNone ==
    /\ Len(trace') = Len(trace) + 1
    /\ ~trace'[Len(trace')].ret.some

\* C14: a call that returns None leaves the Index State and the items as
\* they were (empty stays empty; for k > N the state stays (0, ..., k-1)),
\* and no call changes the items.
C14_NoneIsNoOp ==
    [][/\ c'.items = c.items
       /\ ReturnsNone =>
             /\ c' = c
             /\ n <= N => c'.indices = <<>>
             /\ n > N => c'.indices = [p \in 1..n |-> p - 1]]_vars

\* k > N over a non-empty slice: two calls returned None and the Index
\* State still holds all k positions
C14_Witness ==
    /\ n > N /\ N > 0
    /\ Len(trace) = 2
    /\ trace[2].ret = None
    /\ Len(c.indices) = n

\* no call that returned a combination started on the Index State of an
\* earlier one
NoRevisit ==
    \A p \in 1..Len(trace), q \in 1..Len(trace) :
        (p < q /\ trace[p].ret.some /\ trace[q].ret.some)
            => trace[p].pre # trace[q].pre

\* C15: a caller that keeps calling next() on a fresh enumerator gets None
\* after finitely many calls, and the enumerator never comes back to an
\* earlier index tuple.
C15_Terminates == []NoRevisit /\ <>(NoneCount(trace) > 0)

\* six combinations of two items out of four, then the first None
C15_Witness ==
    /\ N = 4 /\ n = 2
    /\ FirstNoneAt(trace, 7)
    /\ NoneCount(trace) = 1

====
